---- MODULE Spec2Model ----
(***************************************************************************)
(* coTestPilot: the ai_check pipeline of the Playwright and the Selenium   *)
(* bindings (module import, tester selection, rate-limited vision calls    *)
(* with the retry loop, aggregation, persistence of the result file).      *)
(***************************************************************************)
EXTENDS Integers, Sequences, FiniteSets, TLC

VARIABLES
    binding,          \* which package is imported: "playwright" | "selenium"
    module,           \* "unloaded" | "ready" | "import_failed"
    testers_json,     \* state of the testers.json resource at import
    TESTERS,          \* module global TESTERS
    api_key,          \* module global api_key
    DEFAULT_CONFIG,   \* module global DEFAULT_CONFIG
    api_rate_limiter, \* module global api_rate_limiter (min_interval, last_call)
    now,              \* wall clock, whole seconds
    fs,               \* result files on disk: path -> JSON document
    ncalls,           \* number of check() invocations started so far
    nconfig,          \* number of configure_logging() calls made by the user
    call,             \* the check() invocation in progress (locals, position)
    cv,               \* the last direct chat_vision() call and its outcome
    import_exc,       \* the exception that ended the import, "" when none did
    rl,               \* a RateLimiter a caller built, with the log of its wait() calls
    report,           \* the last ai_report() call and its outcome
    peer              \* a second check() invocation, running concurrently

vars == <<binding, module, testers_json, TESTERS, api_key, DEFAULT_CONFIG,
          api_rate_limiter, now, fs, ncalls, nconfig, call, cv, import_exc, rl,
          report, peer>>

(***************************************************************************)
(* Bounds of the model.                                                    *)
(***************************************************************************)
MaxCalls == 1
MaxSeqCalls == 2
MaxConfigure == 1
MaxTime == 3
MaxWaits == 3
MaxWaitTime == 8
MaxReportCalls == 2
MaxConcCalls == 1
MaxRetryCalls == 1

(***************************************************************************)
(* Python values.                                                          *)
(***************************************************************************)
None == "None"
Unbound == "Unbound"

\* A str is a sequence of one-character strings, so that lower() and the
\* `in` substring test are computed and not assumed.
UpperToLower == [A |-> "a", B |-> "b", C |-> "c", E |-> "e", I |-> "i", J |-> "j",
                 L |-> "l", N |-> "n", O |-> "o", S |-> "s", X |-> "x"]

LowerChar(c) == IF c \in DOMAIN UpperToLower THEN UpperToLower[c] ELSE c

Lower(s) == [i \in 1..Len(s) |-> LowerChar(s[i])]

\* Python's `needle in hay` on str.
Contains(hay, needle) ==
    \E i \in 0..(Len(hay) - Len(needle)) :
        \A k \in 1..Len(needle) : hay[i + k] = needle[k]

\* A value chat_vision can return: the fallback str "[]" or the parsed JSON.
PyStr(s) == [py |-> "str", s |-> s, items |-> <<>>]
PyList(xs) == [py |-> "list", s |-> "", items |-> xs]
PyDict(r) == [py |-> "dict", s |-> "", items |-> <<r>>]
UnboundValue == [py |-> Unbound, s |-> "", items |-> <<>>]

(***************************************************************************)
(* The tester catalog resource and the names a caller may request.         *)
(***************************************************************************)
nJason == <<"J", "a", "s", "o", "n">>
nJASONX == <<"J", "A", "S", "O", "N", "X">>
nAlice == <<"A", "l", "i", "c", "e">>
nAl == <<"A", "l">>
sJason == <<"j", "a", "s", "o", "n">>
sALICE == <<"A", "L", "I", "C", "E">>
sBob == <<"b", "o", "b">>
sAl == <<"a", "l">>

Tester(n, b) == [name |-> n, biography |-> b]

Catalogs ==
    { <<>>,
      <<Tester(nJason, "lead"), Tester(nAlice, "a11y")>>,
      <<Tester(nAlice, "a11y"), Tester(nAl, "perf")>>,
      <<Tester(nJASONX, "sec"), Tester(nJason, "lead")>> }

\* testers.json at import: missing, not JSON, a JSON object without the
\* 'testers' key, a JSON document that is not an object, a file the process
\* may not read, or a document holding a catalog.
TestersJsonStates ==
    { [kind |-> k, testers |-> <<>>] :
         k \in {"missing", "malformed", "nokey", "notobject", "unreadable"} }
    \cup { [kind |-> "valid", testers |-> c] : c \in Catalogs }

Requested(names) == [given |-> TRUE, names |-> names]
NoTesters == [given |-> FALSE, names |-> <<>>]

Requests ==
    { NoTesters, Requested(<<>>), Requested(<<sALICE, sBob>>), Requested(<<sBob>>),
      Requested(<<sAl>>), Requested(<<sJason>>), Requested(<<nJason, nAlice>>),
      Requested(<< <<>> >>), Requested(<<nAlice, nJason>>) }

(***************************************************************************)
(* Tester selection, as check() computes it.                               *)
(***************************************************************************)
IsJason(t) == Lower(t.name) = sJason

\* Mutant: the requested name must equal the tester's name.
MatchesRequestedExactly(t, testers) ==
    \E k \in 1..Len(testers) : Lower(t.name) = Lower(testers[k])

MatchesRequested(t, testers) ==
    \E k \in 1..Len(testers) : Contains(Lower(t.name), Lower(testers[k]))

\* Mutant: the default is every tester whose name contains "jason".
DefaultSelectionBySubstring(catalog) ==
    SelectSeq(catalog, LAMBDA t : Contains(Lower(t.name), sJason))

DefaultSelection(catalog) == SelectSeq(catalog, IsJason)

\* Mutant: no fallback when the requested names match nothing.
SelectTestersNoFallback(catalog, testers) ==
    IF ~testers.given
    THEN DefaultSelection(catalog)
    ELSE SelectSeq(catalog, LAMBDA t : MatchesRequested(t, testers.names))

\* Mutant: a built-in Jason stands in when the catalog holds no tester.
SelectTestersBuiltinJason(catalog, testers) ==
    IF catalog = <<>>
    THEN <<Tester(nJason, "lead")>>
    ELSE SelectTestersNoFallback(catalog, testers)

SelectTesters(catalog, testers) ==
    IF ~testers.given
    THEN DefaultSelection(catalog)
    ELSE LET matched == SelectSeq(catalog, LAMBDA t : MatchesRequested(t, testers.names))
         IN IF matched = <<>> THEN DefaultSelection(catalog) ELSE matched

(***************************************************************************)
(* The arguments of check(): the defaults of the signature, and the calls  *)
(* the model issues (each group varies the arguments one stage reads).     *)
(***************************************************************************)
DefaultArgs ==
    [profile_search |-> None, custom_rules |-> None, testers |-> NoTesters,
     label |-> None, save_to_file |-> TRUE, output_dir |-> "ai_check_results"]

CheckArgs ==
    { [DefaultArgs EXCEPT !.testers = t] : t \in Requests }
    \cup { [DefaultArgs EXCEPT !.custom_rules = r] : r \in {"dict", "list"} }
    \cup { [DefaultArgs EXCEPT !.profile_search = p, !.save_to_file = FALSE] :
              p \in {"", "a11y"} }
    \cup { [DefaultArgs EXCEPT !.label = l, !.output_dir = d] :
              l \in {None, "home"}, d \in {None, ".", "ai_check_results"} }

(***************************************************************************)
(* Result files.                                                           *)
(***************************************************************************)
\* f"{label}_{timestamp_str}_ai.json" if label else f"ai_checks_{timestamp_str}.json"
OutputFileName(label, timestamp_str) ==
    IF label # None
    THEN [stem |-> label, ts |-> timestamp_str, tail |-> "_ai.json"]
    ELSE [stem |-> "ai_checks", ts |-> timestamp_str, tail |-> ".json"]

NoName == [stem |-> "", ts |-> 0, tail |-> ""]
NonePath == [dir |-> None, name |-> NoName]
UnboundPath == [dir |-> Unbound, name |-> NoName]

\* os.path.join(output_dir, output_file); a bare file name is relative to
\* the working directory, the same file as "./name".
PathJoin(dir, name) == [dir |-> dir, name |-> name]
RelativePath(name) == [dir |-> ".", name |-> name]

\* json.dump / json.load: a list is written as an array, a dict as an object.
JsonDump(v) == [kind |-> IF v.py = "list" THEN "array" ELSE "object", items |-> v.items]
JsonLoad(doc) == [py |-> IF doc.kind = "array" THEN "list" ELSE "dict", s |-> "",
                  items |-> doc.items]

WriteFile(files, path, doc) ==
    [p \in DOMAIN files \cup {path} |-> IF p = path THEN doc ELSE files[p]]

EmptyFs == [p \in {} |-> JsonDump(PyList(<<>>))]

\* The characters of the labels and fixed parts that file names are made of.
NameChars ==
    [ai_checks |-> <<"a", "i", "_", "c", "h", "e", "c", "k", "s">>,
     home |-> <<"h", "o", "m", "e">>,
     ai_home |-> <<"a", "i", "_", "h", "o", "m", "e">>,
     ai_check_report |-> <<"a", "i", "_", "c", "h", "e", "c", "k", "_", "r", "e", "p",
                           "o", "r", "t">>]

TailChars ==
    [t \in {"_ai.json", ".json", ".html"} |->
        IF t = "_ai.json" THEN <<"_", "a", "i", ".", "j", "s", "o", "n">>
        ELSE IF t = ".json" THEN <<".", "j", "s", "o", "n">>
        ELSE <<".", "h", "t", "m", "l">>]

\* 'ai_check_report.html', the name of the report.
ReportFileName == [stem |-> "ai_check_report", ts |-> 0, tail |-> ".html"]

\* The file name as a str: the timestamp is one token of digits; the
\* report's name carries none.
FileNameChars(name) ==
    IF name = ReportFileName
    THEN NameChars[name.stem] \o TailChars[name.tail]
    ELSE NameChars[name.stem] \o <<"_", ToString(name.ts)>> \o TailChars[name.tail]

\* Mutant: every .json file of the directory is a result file.
GlobMatchAnyJson(chars) ==
    /\ Len(chars) >= 5
    /\ SubSeq(chars, Len(chars) - 4, Len(chars)) = <<".", "j", "s", "o", "n">>

\* fnmatch of a file name against "ai_*.json".
GlobMatch(chars) ==
    /\ Len(chars) >= 8
    /\ SubSeq(chars, 1, 3) = <<"a", "i", "_">>
    /\ SubSeq(chars, Len(chars) - 4, Len(chars)) = <<".", "j", "s", "o", "n">>

\* glob.glob(os.path.join(output_dir, "ai_*.json")), as a set of paths.
GlobJsonFiles(files, output_dir) ==
    { p \in DOMAIN files : p.dir = output_dir /\ GlobMatch(FileNameChars(p.name)) }

\* A file whose content is not JSON.
Garbage == [kind |-> "garbage", items |-> <<>>]

\* results of one json_file: a list is extended with, anything else is
\* appended; a file that does not parse adds nothing.
ReadResults(doc) ==
    IF doc.kind = "array" THEN doc.items
    ELSE IF doc.kind = "object" THEN <<doc.items[1]>>
    ELSE <<>>

\* Mutant: the first file that does not parse ends the collection.
RECURSIVE CollectUntilFailure(_, _)
CollectUntilFailure(files, json_files) ==
    IF json_files = <<>> \/ files[Head(json_files)].kind \notin {"array", "object"}
    THEN <<>>
    ELSE ReadResults(files[Head(json_files)]) \o CollectUntilFailure(files, Tail(json_files))

\* all_results after the loop over json_files.
RECURSIVE Collect(_, _)
Collect(files, json_files) ==
    IF json_files = <<>> THEN <<>>
    ELSE ReadResults(files[Head(json_files)]) \o Collect(files, Tail(json_files))

\* The orders in which glob may list a set of paths.
Orders(paths) ==
    { o \in [1..Cardinality(paths) -> paths] :
        \A i, j \in 1..Cardinality(paths) : o[i] = o[j] => i = j }

(***************************************************************************)
(* The rate limiter.                                                       *)
(***************************************************************************)
Epoch == 100

\* Calls per second, as a fraction: 1.0 is 1/1 and 0.25 is 1/4.
Rate(num, den) == [num |-> num, den |-> den]

ImportDefaultConfig ==
    [api_rate_limit |-> Rate(1, 1), screenshot_retention_days |-> 30, max_retries |-> 3]

\* The configure_logging(...) call that ends the module.
ModuleConfig ==
    [api_rate_limit |-> Rate(1, 4), screenshot_retention_days |-> 7, max_retries |-> 5]

RateLimiterInit(calls_per_second) ==
    [min_interval |-> calls_per_second.den \div calls_per_second.num, last_call |-> 0]

\* Mutant: wait() returns at once.
WaitUntilNoSleep(limiter, t) == t

\* The time at which wait() returns when called at time t.
WaitUntil(limiter, t) ==
    LET elapsed == t - limiter.last_call
    IN IF elapsed < limiter.min_interval
       THEN t + (limiter.min_interval - elapsed)
       ELSE t

\* The rates a caller builds a RateLimiter with.
Rates == { Rate(1, 1), Rate(1, 2), Rate(1, 4) }

\* No RateLimiter built by the caller yet.
NoLimiter == [made |-> FALSE, rate |-> Rate(1, 1), limiter |-> RateLimiterInit(Rate(1, 1)),
              log |-> <<>>]

(***************************************************************************)
(* The vision client.                                                      *)
(***************************************************************************)
\* What the HTTP exchange of one request does.
EndpointOutcomes == {"transport_error", "http_error", "bad_json", "findings"}

\* The prompt: a str, here the sequence of the parts the f-string renders.
BuildPrompt(url, page_text, tester) ==
    <<"analyze", url, page_text, tester.name, tester.biography>>

Persona(prompt) == IF Len(prompt) >= 4 THEN prompt[4] ELSE <<>>

\* The findings the model reports for a prompt.
Findings(prompt) == <<[title |-> "Broken image link", persona |-> Persona(prompt)]>>

Raise(exc, requests) ==
    [raised |-> TRUE, exc |-> exc, value |-> UnboundValue, requests |-> requests]

Return(value, requests) ==
    [raised |-> FALSE, exc |-> "", value |-> value, requests |-> requests]

\* The body of chat_vision's try block.
ChatVisionTry(prompt, base64_image, key, endpoint) ==
    IF key = None THEN Raise("RuntimeError", 0)
    ELSE IF base64_image = "" THEN Raise("ValueError", 0)
    ELSE IF prompt = <<>> THEN Raise("ValueError", 0)
    ELSE IF endpoint = "transport_error" THEN Raise("RequestException", 1)
    ELSE IF endpoint = "http_error" THEN Raise("RequestException", 1)
    ELSE IF endpoint = "bad_json" THEN Raise("JSONDecodeError", 1)
    ELSE Return(PyList(Findings(prompt)), 1)

\* Mutant: chat_vision re-raises the errors of the transport.
ChatVisionRaisesTransport(prompt, base64_image, key, endpoint) ==
    LET r == ChatVisionTry(prompt, base64_image, key, endpoint)
    IN IF r.raised /\ r.exc # "RequestException" THEN Return(PyStr("[]"), r.requests) ELSE r

\* Mutant: chat_vision lets the exception of its body reach the caller.
ChatVisionPropagates(prompt, base64_image, key, endpoint) ==
    ChatVisionTry(prompt, base64_image, key, endpoint)

\* chat_vision: both except clauses return the str "[]".
ChatVision(prompt, base64_image, key, endpoint) ==
    LET r == ChatVisionTry(prompt, base64_image, key, endpoint)
    IN IF r.raised THEN Return(PyStr("[]"), r.requests) ELSE r

\* json.loads of a str the aggregation meets.
JsonLoads(s) ==
    IF s = "[]" THEN Return(PyList(<<>>), 0) ELSE Raise("JSONDecodeError", 0)

(***************************************************************************)
(* One check() invocation: its locals and its position.                    *)
(***************************************************************************)
Url == "https://www.google.com/"
PageText == "body text"
ScreenshotBase64 == "iVBORw0KGgo"

ScreenshotPath(timestamp) == [dir |-> "screenshots", stem |-> "check", ts |-> timestamp]

NoRecord ==
    [timestamp |-> 0, url |-> "", screenshot |-> ScreenshotPath(0), testers_results |-> <<>>]

NoResult ==
    [kind |-> "none", timestamp |-> 0, url |-> "", bugs |-> <<>>, raw_response |-> NoRecord,
     error |-> "", profile |-> "", output_file |-> NonePath]

IdleCall ==
    [pc |-> "idle", args |-> DefaultArgs, timestamp |-> 0, selected_testers |-> <<>>,
     idx |-> 0, retries |-> 0, vision_response |-> UnboundValue, all_findings |-> <<>>,
     all_issues |-> <<>>, output_file |-> NoName, output_file_path |-> UnboundPath,
     existing_results |-> <<>>, exc |-> "", result |-> NoResult, attempts |-> <<>>,
     fs0 |-> EmptyFs, screenshot_saved |-> FALSE, waits |-> 0]

NoVisionCall ==
    [called |-> FALSE, prompt |-> <<>>, base64_image |-> "", endpoint |-> "findings",
     result |-> Return(UnboundValue, 0)]

\* No ai_report() call made yet.
NoReport ==
    [called |-> FALSE, output_dir |-> "", failure |-> "none", raised |-> FALSE,
     exc |-> "", path |-> NonePath, json_files |-> <<>>, all_results |-> <<>>,
     fs0 |-> EmptyFs]

\* check_result, the CheckRecord of the invocation.
CheckRecord(c) ==
    [timestamp |-> c.timestamp, url |-> Url, screenshot |-> ScreenshotPath(c.timestamp),
     testers_results |-> c.all_findings]

\* profile_search or "default": None and the empty str are both falsy.
Profile(profile_search) ==
    IF profile_search \notin {None, ""} THEN profile_search ELSE "default"

\* The flattening of testers_results into bugs: a str is JSON-parsed, and a
\* tester whose str does not parse contributes nothing.
RECURSIVE ExtractIssues(_)
ExtractIssues(findings) ==
    IF findings = <<>> THEN <<>>
    ELSE LET issues == Head(findings).issues
             parsed == IF issues.py = "str" THEN JsonLoads(issues.s) ELSE Return(issues, 0)
         IN (IF parsed.raised THEN <<>> ELSE parsed.value.items)
            \o ExtractIssues(Tail(findings))

\* Mutant: the result names the bare file name, not the path written.
SuccessResultBareFileName(c, t) ==
    [kind |-> "success", timestamp |-> t, url |-> Url, bugs |-> c.all_issues,
     raw_response |-> CheckRecord(c), error |-> "",
     profile |-> Profile(c.args.profile_search),
     output_file |-> IF c.args.save_to_file THEN RelativePath(c.output_file) ELSE NonePath]

\* The CheckResult of the normal return.
SuccessResult(c, t) ==
    [kind |-> "success", timestamp |-> t, url |-> Url, bugs |-> c.all_issues,
     raw_response |-> CheckRecord(c), error |-> "",
     profile |-> Profile(c.args.profile_search), output_file |-> c.output_file_path]

\* Mutant: the except clause reports the default profile.
ErrorResultDefaultProfile(c, t, b) ==
    [kind |-> "error", timestamp |-> t, url |-> Url, bugs |-> <<>>,
     raw_response |-> NoRecord, error |-> c.exc, profile |-> "default",
     output_file |-> IF b = "playwright" THEN c.output_file_path ELSE NonePath]

\* The CheckResult the except clause builds. The Playwright binding reads the
\* local output_file_path, the Selenium binding passes None.
ErrorResult(c, t, b) ==
    [kind |-> "error", timestamp |-> t, url |-> Url, bugs |-> <<>>,
     raw_response |-> NoRecord, error |-> c.exc,
     profile |-> Profile(c.args.profile_search),
     output_file |-> IF b = "playwright" THEN c.output_file_path ELSE NonePath]

\* Whether building that CheckResult reads a local that was never assigned.
HandlerReadsUnbound(c, b) == b = "playwright" /\ c.output_file_path = UnboundPath

\* Mutant: the new record is not written.
SavedValueDropsRecord(c, b) ==
    IF b = "playwright" THEN PyList(c.existing_results) ELSE PyDict(NoRecord)

\* Mutant: the loaded results are written back without the new record.
SavedValueWithoutAppend(c, b) ==
    IF b = "playwright" THEN PyList(c.existing_results) ELSE PyDict(CheckRecord(c))

\* The list check() writes: the loaded results with check_result appended
\* (Playwright), or check_result itself (Selenium).
SavedValue(c, b) ==
    IF b = "playwright"
    THEN PyList(Append(c.existing_results, CheckRecord(c)))
    ELSE PyDict(CheckRecord(c))

\* existing_results after the load of the file named output_file.
LoadExisting(files, path) ==
    IF path \in DOMAIN files
    THEN LET loaded == JsonLoad(files[path])
         IN IF loaded.py = "list" THEN loaded.items ELSE <<loaded.items[1]>>
    ELSE <<>>

(***************************************************************************)
(* The state machine.                                                      *)
(***************************************************************************)
Bindings == {"playwright", "selenium"}

Init ==
    /\ binding \in Bindings
    /\ module = "unloaded"
    /\ testers_json \in TestersJsonStates
    /\ TESTERS = <<>>
    /\ api_key = None
    /\ DEFAULT_CONFIG = ImportDefaultConfig
    /\ api_rate_limiter = RateLimiterInit(ImportDefaultConfig.api_rate_limit)
    /\ now = Epoch
    /\ fs = EmptyFs
    /\ ncalls = 0
    /\ nconfig = 0
    /\ call = IdleCall
    /\ cv = NoVisionCall
    /\ import_exc = ""
    /\ rl = NoLimiter
    /\ report = NoReport
    /\ peer = IdleCall

\* Mutant: a built-in catalog stands in when the load fails.
LoadTestersBuiltinJason(resource) ==
    IF resource.kind = "valid" THEN resource.testers ELSE <<Tester(nJason, "lead")>>

\* TESTERS after the try/except around the load of testers.json.
LoadTesters(resource) == IF resource.kind = "valid" THEN resource.testers ELSE <<>>

\* The exception of the load that none of the three except clauses
\* (FileNotFoundError, JSONDecodeError, KeyError) catches, "" when there is none.
CatalogLoadEscapes(resource) ==
    IF resource.kind = "notobject" THEN "TypeError"
    ELSE IF resource.kind = "unreadable" THEN "PermissionError"
    ELSE ""

\* DEFAULT_CONFIG.update(config)
ConfigUpdate(current, config) ==
    [k \in DOMAIN current |-> IF k \in DOMAIN config THEN config[k] ELSE current[k]]

\* Import of the package. An exception of the catalog load that no except
\* clause catches ends the import there. With OPENAI_API_KEY unset or empty
\* the module body reaches alert('jj'), an undefined name, and the import
\* ends in NameError before the closing configure_logging(...) call.
ImportModule ==
    /\ module = "unloaded"
    /\ \E key \in {None, "sk-key"} :
          IF CatalogLoadEscapes(testers_json) # ""
          THEN /\ module' = "import_failed"
               /\ import_exc' = CatalogLoadEscapes(testers_json)
               /\ UNCHANGED <<TESTERS, api_key, api_rate_limiter, DEFAULT_CONFIG, peer>>
          ELSE /\ api_key' = key
               /\ TESTERS' = LoadTesters(testers_json)
               /\ api_rate_limiter' = RateLimiterInit(ImportDefaultConfig.api_rate_limit)
               /\ IF key = None
                  THEN /\ module' = "import_failed"
                       /\ import_exc' = "NameError"
                       /\ DEFAULT_CONFIG' = ImportDefaultConfig
                  ELSE /\ module' = "ready"
                       /\ import_exc' = ""
                       /\ DEFAULT_CONFIG' = ConfigUpdate(ImportDefaultConfig, ModuleConfig)
    /\ UNCHANGED <<binding, testers_json, now, fs, ncalls, nconfig, call, cv, rl, report, peer>>

InProgress == call.pc \notin {"idle", "returned", "raised"}

\* Time passing between two invocations.
Tick ==
    /\ module = "ready"
    /\ ~InProgress
    /\ now < Epoch + MaxTime
    /\ now' = now + 1
    /\ UNCHANGED <<binding, module, testers_json, TESTERS, api_key, DEFAULT_CONFIG,
                   api_rate_limiter, fs, ncalls, nconfig, call, cv,
                   import_exc, rl, report, peer>>

\* The caller invokes page.ai_check(...) / driver.ai_check(...) with one of
\* `arguments`, at most `bound` times in a run.
StartCheckWith(arguments, bound) ==
    /\ module = "ready"
    /\ ~InProgress
    /\ ncalls < bound
    /\ \E a \in arguments :
          call' = [IdleCall EXCEPT !.pc = "capture", !.args = a, !.fs0 = fs]
    /\ ncalls' = ncalls + 1
    /\ UNCHANGED <<binding, module, testers_json, TESTERS, api_key, DEFAULT_CONFIG,
                   api_rate_limiter, now, fs, nconfig, cv,
                   import_exc, rl, report, peer>>

StartCheck == StartCheckWith(CheckArgs, MaxCalls)

\* The configurations a caller passes to configure_logging(config=...).
ConfigChoices == { [max_retries |-> 1], [max_retries |-> 3] }

\* configure_logging: DEFAULT_CONFIG.update(config). The rate limiter built
\* at import is not rebuilt.
ConfigureLogging ==
    /\ module = "ready"
    /\ ~InProgress
    /\ nconfig < MaxConfigure
    /\ \E config \in ConfigChoices :
          DEFAULT_CONFIG' = ConfigUpdate(DEFAULT_CONFIG, config)
    /\ nconfig' = nconfig + 1
    /\ UNCHANGED <<binding, module, testers_json, TESTERS, api_key, api_rate_limiter,
                   now, fs, ncalls, call, cv,
                   import_exc, rl, report, peer>>

\* timestamp, the screenshot written under screenshots/ and its base64
\* encoding; the driver may fail.
CaptureScreenshot ==
    /\ call.pc = "capture"
    /\ \E ok \in BOOLEAN :
          call' = IF ok
                  THEN [call EXCEPT !.pc = "validate", !.timestamp = now,
                                    !.screenshot_saved = TRUE]
                  ELSE [call EXCEPT !.pc = "except", !.timestamp = now,
                                    !.exc = "ScreenshotError"]
    /\ UNCHANGED <<binding, module, testers_json, TESTERS, api_key, DEFAULT_CONFIG,
                   api_rate_limiter, now, fs, ncalls, nconfig, cv,
                   import_exc, rl, report, peer>>

\* The custom_rules check, then the selection of the testers.
ValidateAndSelect ==
    /\ call.pc = "validate"
    /\ call' = IF call.args.custom_rules \notin {None, "dict"}
               THEN [call EXCEPT !.pc = "except", !.exc = "ValueError"]
               ELSE [call EXCEPT !.pc = "for_tester", !.idx = 1,
                                 !.selected_testers = SelectTesters(TESTERS, call.args.testers)]
    /\ UNCHANGED <<binding, module, testers_json, TESTERS, api_key, DEFAULT_CONFIG,
                   api_rate_limiter, now, fs, ncalls, nconfig, cv,
                   import_exc, rl, report, peer>>

\* The head of `for tester in selected_testers`: api_rate_limiter.wait() and
\* retries = DEFAULT_CONFIG['max_retries'], or the end of the loop.
ForTester ==
    /\ call.pc = "for_tester"
    /\ IF call.idx > Len(call.selected_testers)
       THEN /\ call' = [call EXCEPT !.pc = "aggregate"]
            /\ UNCHANGED <<now, api_rate_limiter,
                   import_exc, rl, report, peer>>
       ELSE /\ WaitUntil(api_rate_limiter, now) <= Epoch + MaxTime
            /\ now' = WaitUntil(api_rate_limiter, now)
            /\ api_rate_limiter' = [api_rate_limiter EXCEPT !.last_call = now']
            /\ call' = [call EXCEPT !.pc = "retry", !.retries = DEFAULT_CONFIG.max_retries,
                                    !.waits = call.waits + 1]
    /\ UNCHANGED <<binding, module, testers_json, TESTERS, api_key, DEFAULT_CONFIG,
                   fs, ncalls, nconfig, cv,
                   import_exc, rl, report, peer>>

\* Mutant: the tester's entry is put in front of the earlier ones.
AppendFindingInFront(c) ==
    LET tester == c.selected_testers[c.idx]
    IN IF c.vision_response = UnboundValue
       THEN [c EXCEPT !.pc = "except", !.exc = "UnboundLocalError"]
       ELSE [c EXCEPT !.pc = "for_tester", !.idx = c.idx + 1,
                      !.all_findings = <<[tester |-> tester.name,
                                          biography |-> tester.biography,
                                          issues |-> c.vision_response]>>
                                       \o c.all_findings]

\* Mutant: a call that returned is repeated while retries remain.
AppendFindingKeepTrying(c) ==
    LET tester == c.selected_testers[c.idx]
    IN IF c.vision_response = UnboundValue
       THEN [c EXCEPT !.pc = "except", !.exc = "UnboundLocalError"]
       ELSE IF c.retries > 1
       THEN [c EXCEPT !.retries = c.retries - 1]
       ELSE [c EXCEPT !.pc = "for_tester", !.idx = c.idx + 1,
                      !.all_findings = Append(c.all_findings,
                          [tester |-> tester.name, biography |-> tester.biography,
                           issues |-> c.vision_response])]

\* Mutant: an unassigned vision_response reads as "[]".
AppendFindingDefaultsEmpty(c) ==
    LET tester == c.selected_testers[c.idx]
    IN [c EXCEPT !.pc = "for_tester", !.idx = c.idx + 1,
                 !.all_findings = Append(c.all_findings,
                     [tester |-> tester.name, biography |-> tester.biography,
                      issues |-> IF c.vision_response = UnboundValue
                                 THEN PyStr("[]") ELSE c.vision_response])]

\* all_findings.append({...}) with the current vision_response.
AppendFinding(c) ==
    LET tester == c.selected_testers[c.idx]
    IN IF c.vision_response = UnboundValue
       THEN [c EXCEPT !.pc = "except", !.exc = "UnboundLocalError"]
       ELSE [c EXCEPT !.pc = "for_tester", !.idx = c.idx + 1,
                      !.all_findings = Append(c.all_findings,
                          [tester |-> tester.name, biography |-> tester.biography,
                           issues |-> c.vision_response])]

\* One pass of `while retries > 0`: a chat_vision call that takes d seconds,
\* then break, re-raise or the 2-second sleep; or the exit of the loop.
RetryLoop ==
    /\ call.pc = "retry"
    /\ \E endpoint \in EndpointOutcomes, d \in 0..1 :
          LET tester == call.selected_testers[call.idx]
              r == ChatVision(BuildPrompt(Url, PageText, tester), ScreenshotBase64,
                              api_key, endpoint)
              logged == [call EXCEPT !.attempts = Append(call.attempts,
                            [tester |-> tester.name, endpoint |-> endpoint, at |-> now,
                             requests |-> r.requests, raised |-> r.raised,
                             value |-> r.value, waits |-> call.waits])]
          IN IF call.retries <= 0
             THEN /\ call' = AppendFinding(call)
                  /\ now' = now
             ELSE IF ~r.raised
             THEN /\ now + d <= Epoch + MaxTime
                  /\ now' = now + d
                  /\ call' = AppendFinding([logged EXCEPT !.vision_response = r.value])
             ELSE IF call.retries - 1 = 0
             THEN /\ now + d <= Epoch + MaxTime
                  /\ now' = now + d
                  /\ call' = [logged EXCEPT !.retries = 0, !.pc = "except", !.exc = r.exc]
             ELSE /\ now + d + 2 <= Epoch + MaxTime
                  /\ now' = now + d + 2
                  /\ call' = [logged EXCEPT !.retries = call.retries - 1]
    /\ UNCHANGED <<binding, module, testers_json, TESTERS, api_key, DEFAULT_CONFIG,
                   api_rate_limiter, fs, ncalls, nconfig, cv,
                   import_exc, rl, report, peer>>

\* check_result and the flattening of the testers' issues into all_issues.
Aggregate ==
    /\ call.pc = "aggregate"
    /\ call' = [call EXCEPT !.pc = "save", !.all_issues = ExtractIssues(call.all_findings)]
    /\ UNCHANGED <<binding, module, testers_json, TESTERS, api_key, DEFAULT_CONFIG,
                   api_rate_limiter, now, fs, ncalls, nconfig, cv,
                   import_exc, rl, report, peer>>

\* output_file_path = None; with save_to_file, the file name and the path.
SavePrepare ==
    /\ call.pc = "save"
    /\ call' = IF ~call.args.save_to_file
               THEN [call EXCEPT !.pc = "return", !.output_file_path = NonePath]
               ELSE LET output_file == OutputFileName(call.args.label, now)
                    IN [call EXCEPT
                          !.pc = IF binding = "playwright" THEN "load" ELSE "write",
                          !.output_file = output_file,
                          !.output_file_path =
                              IF call.args.output_dir # None
                              THEN PathJoin(call.args.output_dir, output_file)
                              ELSE NonePath]
    /\ UNCHANGED <<binding, module, testers_json, TESTERS, api_key, DEFAULT_CONFIG,
                   api_rate_limiter, now, fs, ncalls, nconfig, cv,
                   import_exc, rl, report, peer>>

\* Playwright: open(output_file, 'r') and json.load, or [] when that fails.
SaveLoad ==
    /\ call.pc = "load"
    /\ call' = [call EXCEPT !.pc = "write",
                  !.existing_results = LoadExisting(fs, RelativePath(call.output_file))]
    /\ UNCHANGED <<binding, module, testers_json, TESTERS, api_key, DEFAULT_CONFIG,
                   api_rate_limiter, now, fs, ncalls, nconfig, cv,
                   import_exc, rl, report, peer>>

\* open(output_file_path, 'w') and json.dump. open(None) is a TypeError; the
\* file system may refuse the write.
SaveWrite ==
    /\ call.pc = "write"
    /\ \E ok \in BOOLEAN :
          IF call.output_file_path = NonePath
          THEN /\ call' = [call EXCEPT !.pc = "except", !.exc = "TypeError"]
               /\ fs' = fs
          ELSE IF ~ok
          THEN /\ call' = [call EXCEPT !.pc = "except", !.exc = "OSError"]
               /\ fs' = fs
          ELSE /\ call' = [call EXCEPT !.pc = "return"]
               /\ fs' = WriteFile(fs, call.output_file_path, JsonDump(SavedValue(call, binding)))
    /\ UNCHANGED <<binding, module, testers_json, TESTERS, api_key, DEFAULT_CONFIG,
                   api_rate_limiter, now, ncalls, nconfig, cv,
                   import_exc, rl, report, peer>>

\* return CheckResult(...)
ReturnResult ==
    /\ call.pc = "return"
    /\ call' = [call EXCEPT !.pc = "returned", !.result = SuccessResult(call, now)]
    /\ UNCHANGED <<binding, module, testers_json, TESTERS, api_key, DEFAULT_CONFIG,
                   api_rate_limiter, now, fs, ncalls, nconfig, cv,
                   import_exc, rl, report, peer>>

\* except Exception as e: return CheckResult(... error ...). An exception
\* raised while the handler runs leaves check().
ExceptHandler ==
    /\ call.pc = "except"
    /\ call' = IF HandlerReadsUnbound(call, binding)
               THEN [call EXCEPT !.pc = "raised", !.exc = "UnboundLocalError"]
               ELSE [call EXCEPT !.pc = "returned", !.result = ErrorResult(call, now, binding)]
    /\ UNCHANGED <<binding, module, testers_json, TESTERS, api_key, DEFAULT_CONFIG,
                   api_rate_limiter, now, fs, ncalls, nconfig, cv,
                   import_exc, rl, report, peer>>

Next ==
    \/ ImportModule
    \/ ConfigureLogging
    \/ StartCheck
    \/ CaptureScreenshot
    \/ ValidateAndSelect
    \/ ForTester
    \/ RetryLoop
    \/ Aggregate
    \/ SavePrepare
    \/ SaveLoad
    \/ SaveWrite
    \/ ReturnResult
    \/ ExceptHandler

Spec == Init /\ [][Next]_vars

(***************************************************************************)
(* Successive check() calls that save their results: the arguments that    *)
(* decide the result file, on an empty and on a two-tester catalog.         *)
(***************************************************************************)
PersistArgs ==
    { [DefaultArgs EXCEPT !.output_dir = d] : d \in {None, ".", "ai_check_results"} }
    \cup { [DefaultArgs EXCEPT !.label = "home"],
           [DefaultArgs EXCEPT !.save_to_file = FALSE],
           [DefaultArgs EXCEPT !.testers = Requested(<<nJason, nAlice>>)] }

SeqCatalogs == { <<>>, <<Tester(nJason, "lead"), Tester(nAlice, "a11y")>> }

InitSeq == Init /\ testers_json.kind = "valid" /\ testers_json.testers \in SeqCatalogs

StartCheckSeq == StartCheckWith(PersistArgs, MaxSeqCalls)

NextSeq ==
    \/ ImportModule
    \/ Tick
    \/ StartCheckSeq
    \/ CaptureScreenshot
    \/ ValidateAndSelect
    \/ ForTester
    \/ RetryLoop
    \/ Aggregate
    \/ SavePrepare
    \/ SaveLoad
    \/ SaveWrite
    \/ ReturnResult
    \/ ExceptHandler

SpecSeq == InitSeq /\ [][NextSeq]_vars

(***************************************************************************)
(* chat_vision called on its own, on every combination of its inputs.      *)
(***************************************************************************)
Prompts == {<<>>, <<"analyze", Url, PageText, nJason, "lead">>}
Images == {"", ScreenshotBase64}

DirectChatVision ==
    /\ module = "ready"
    /\ \E prompt \in Prompts, base64_image \in Images, endpoint \in EndpointOutcomes :
          cv' = [called |-> TRUE, prompt |-> prompt, base64_image |-> base64_image,
                 endpoint |-> endpoint,
                 result |-> ChatVision(prompt, base64_image, api_key, endpoint)]
    /\ UNCHANGED <<binding, module, testers_json, TESTERS, api_key, DEFAULT_CONFIG,
                   api_rate_limiter, now, fs, ncalls, nconfig, call,
                   import_exc, rl, report, peer>>

NextVision == ImportModule \/ DirectChatVision

SpecVision == Init /\ [][NextVision]_vars

(***************************************************************************)
(* ai_report() after check() calls that save into the directory it reads.  *)
(***************************************************************************)
\* result['screenshot'] = os.path.join('reports', basename) when the
\* screenshot file exists and was copied.
RewriteScreenshot(result, exists) ==
    IF exists THEN [result EXCEPT !.screenshot.dir = "reports"] ELSE result

ReportDirs == {".", "ai_check_results"}

\* What can fail outside the loop over the result files.
ReportFailures == {"none", "template", "render", "write"}

ReportException(failure) ==
    IF failure = "template" THEN "FileNotFoundError"
    ELSE IF failure = "render" THEN "TemplateError"
    ELSE "OSError"

\* ai_report(output_dir): the whole call. An exception leaves the function
\* with its locals; a return leaves the report written.
AiReport ==
    /\ module = "ready"
    /\ ~InProgress
    /\ ~report.called
    /\ \E output_dir \in ReportDirs, failure \in ReportFailures :
          LET started == [NoReport EXCEPT !.called = TRUE, !.output_dir = output_dir,
                                         !.failure = failure, !.fs0 = fs]
          IN IF failure # "none"
             THEN /\ report' = [started EXCEPT !.raised = TRUE,
                                               !.exc = ReportException(failure)]
                  /\ fs' = fs
             ELSE \E json_files \in Orders(GlobJsonFiles(fs, output_dir)),
                     exists \in BOOLEAN :
                     LET all_results == Collect(fs, json_files)
                         rendered == [i \in 1..Len(all_results) |->
                                         RewriteScreenshot(all_results[i], exists)]
                         report_path == PathJoin(output_dir, ReportFileName)
                     IN /\ report' = [started EXCEPT !.path = report_path,
                                                     !.json_files = json_files,
                                                     !.all_results = rendered]
                        /\ fs' = WriteFile(fs, report_path,
                                           [kind |-> "html", items |-> rendered])
    /\ UNCHANGED <<binding, module, testers_json, TESTERS, api_key, DEFAULT_CONFIG,
                   api_rate_limiter, now, ncalls, nconfig, call, cv, import_exc, rl, peer>>

ReportArgs ==
    { [DefaultArgs EXCEPT !.label = l] : l \in {None, "home", "ai_home"} }
    \cup { [DefaultArgs EXCEPT !.output_dir = "."] }

ReportCatalogs == { <<Tester(nJason, "lead"), Tester(nAlice, "a11y")>> }

\* A result file of an earlier run that is not JSON (a truncated write).
GarbagePath ==
    PathJoin("ai_check_results", [stem |-> "ai_checks", ts |-> Epoch - 1, tail |-> ".json"])

InitReport ==
    /\ binding \in Bindings
    /\ module = "unloaded"
    /\ testers_json \in { [kind |-> "valid", testers |-> c] : c \in ReportCatalogs }
    /\ TESTERS = <<>>
    /\ api_key = None
    /\ DEFAULT_CONFIG = ImportDefaultConfig
    /\ api_rate_limiter = RateLimiterInit(ImportDefaultConfig.api_rate_limit)
    /\ now = Epoch
    /\ fs \in {EmptyFs, WriteFile(EmptyFs, GarbagePath, Garbage)}
    /\ ncalls = 0
    /\ nconfig = 0
    /\ call = IdleCall
    /\ cv = NoVisionCall
    /\ import_exc = ""
    /\ rl = NoLimiter
    /\ report = NoReport
    /\ peer = IdleCall

\* The checks of a run come first, its report last (as in the test suites).
StartCheckReport == ~report.called /\ StartCheckWith(ReportArgs, MaxReportCalls)

NextReport ==
    \/ ImportModule
    \/ StartCheckReport
    \/ CaptureScreenshot
    \/ ValidateAndSelect
    \/ ForTester
    \/ RetryLoop
    \/ Aggregate
    \/ SavePrepare
    \/ SaveLoad
    \/ SaveWrite
    \/ ReturnResult
    \/ ExceptHandler
    \/ AiReport

SpecReport == InitReport /\ [][NextReport]_vars

(***************************************************************************)
(* Two check() invocations in two threads: `call` runs as above, `peer` is  *)
(* a second invocation that has analysed its page and stands at its save.   *)
(***************************************************************************)
ConcArgs == { [DefaultArgs EXCEPT !.output_dir = d] : d \in ReportDirs }

InitConc ==
    /\ Init
    /\ testers_json \in { [kind |-> "valid", testers |-> c] : c \in ReportCatalogs }

StartCheckConc == StartCheckWith(ConcArgs, MaxConcCalls)

\* The other thread's check(), whose screenshot was taken a second before
\* the epoch, reaches `if save_to_file`.
PeerStart ==
    /\ module = "ready"
    /\ peer.pc = "idle"
    /\ \E a \in ConcArgs :
          peer' = [IdleCall EXCEPT !.pc = "save", !.args = a, !.timestamp = Epoch - 1,
                                   !.screenshot_saved = TRUE, !.fs0 = fs]
    /\ UNCHANGED <<binding, module, testers_json, TESTERS, api_key, DEFAULT_CONFIG,
                   api_rate_limiter, now, fs, ncalls, nconfig, call, cv, import_exc, rl,
                   report>>

\* The other thread: output_file and output_file_path.
PeerSavePrepare ==
    /\ peer.pc = "save"
    /\ LET output_file == OutputFileName(peer.args.label, now)
       IN peer' = [peer EXCEPT
                     !.pc = IF binding = "playwright" THEN "load" ELSE "write",
                     !.output_file = output_file,
                     !.output_file_path = PathJoin(peer.args.output_dir, output_file)]
    /\ UNCHANGED <<binding, module, testers_json, TESTERS, api_key, DEFAULT_CONFIG,
                   api_rate_limiter, now, fs, ncalls, nconfig, call, cv, import_exc, rl,
                   report>>

\* The other thread: the load of the existing results (Playwright).
PeerSaveLoad ==
    /\ peer.pc = "load"
    /\ peer' = [peer EXCEPT !.pc = "write",
                  !.existing_results = LoadExisting(fs, RelativePath(peer.output_file))]
    /\ UNCHANGED <<binding, module, testers_json, TESTERS, api_key, DEFAULT_CONFIG,
                   api_rate_limiter, now, fs, ncalls, nconfig, call, cv, import_exc, rl,
                   report>>

\* The other thread: the write of the results and the return.
PeerSaveWrite ==
    /\ peer.pc = "write"
    /\ fs' = WriteFile(fs, peer.output_file_path, JsonDump(SavedValue(peer, binding)))
    /\ peer' = [peer EXCEPT !.pc = "returned", !.result = SuccessResult(peer, now)]
    /\ UNCHANGED <<binding, module, testers_json, TESTERS, api_key, DEFAULT_CONFIG,
                   api_rate_limiter, now, ncalls, nconfig, call, cv, import_exc, rl,
                   report>>

NextConc ==
    \/ ImportModule
    \/ StartCheckConc
    \/ CaptureScreenshot
    \/ ValidateAndSelect
    \/ ForTester
    \/ RetryLoop
    \/ Aggregate
    \/ SavePrepare
    \/ SaveLoad
    \/ SaveWrite
    \/ ReturnResult
    \/ ExceptHandler
    \/ PeerStart
    \/ PeerSavePrepare
    \/ PeerSaveLoad
    \/ PeerSaveWrite

SpecConc == InitConc /\ [][NextConc]_vars

(***************************************************************************)
(* check() under any configured max_retries, zero and negative included.   *)
(* Every step of a call in progress is eventually taken: an API call, a     *)
(* sleep or a file operation that has started returns.                      *)
(***************************************************************************)
RetryChoices == { [max_retries |-> n] : n \in {-1, 0, 1, 2} }

RetryArgs ==
    { [DefaultArgs EXCEPT !.testers = t, !.save_to_file = s] :
         t \in {NoTesters, Requested(<<nJason, nAlice>>)}, s \in BOOLEAN }

InitRetry ==
    /\ Init
    /\ testers_json \in { [kind |-> "valid", testers |-> c] : c \in ReportCatalogs }

\* configure_logging(config={'max_retries': n}) between two calls.
ConfigureRetries ==
    /\ module = "ready"
    /\ ~InProgress
    /\ nconfig < MaxConfigure
    /\ \E config \in RetryChoices :
          DEFAULT_CONFIG' = ConfigUpdate(DEFAULT_CONFIG, config)
    /\ nconfig' = nconfig + 1
    /\ UNCHANGED <<binding, module, testers_json, TESTERS, api_key, api_rate_limiter,
                   now, fs, ncalls, call, cv, import_exc, rl, report, peer>>

StartCheckRetry == StartCheckWith(RetryArgs, MaxRetryCalls)

\* The steps of a check() in progress.
CheckStep ==
    \/ CaptureScreenshot
    \/ ValidateAndSelect
    \/ ForTester
    \/ RetryLoop
    \/ Aggregate
    \/ SavePrepare
    \/ SaveLoad
    \/ SaveWrite
    \/ ReturnResult
    \/ ExceptHandler

NextRetry ==
    \/ ImportModule
    \/ ConfigureRetries
    \/ StartCheckRetry
    \/ CaptureScreenshot
    \/ ValidateAndSelect
    \/ ForTester
    \/ RetryLoop
    \/ Aggregate
    \/ SavePrepare
    \/ SaveLoad
    \/ SaveWrite
    \/ ReturnResult
    \/ ExceptHandler

SpecRetry == InitRetry /\ [][NextRetry]_vars /\ WF_vars(CheckStep)

(***************************************************************************)
(* A RateLimiter used on its own by a single caller.                       *)
(***************************************************************************)
\* limiter = RateLimiter(r)
NewLimiter ==
    /\ ~rl.made
    /\ \E r \in Rates :
          rl' = [made |-> TRUE, rate |-> r, limiter |-> RateLimiterInit(r), log |-> <<>>]
    /\ UNCHANGED <<binding, module, testers_json, TESTERS, api_key, DEFAULT_CONFIG,
                   api_rate_limiter, now, fs, ncalls, nconfig, call, cv, import_exc, report, peer>>

\* Time passing between two wait() calls.
LimiterTick ==
    /\ rl.made
    /\ now < Epoch + MaxWaitTime
    /\ now' = now + 1
    /\ UNCHANGED <<binding, module, testers_json, TESTERS, api_key, DEFAULT_CONFIG,
                   api_rate_limiter, fs, ncalls, nconfig, call, cv, import_exc, rl, report, peer>>

\* limiter.wait(), issued at `now`: time.sleep() for the remaining time (it
\* may oversleep), then last_call = time.time().
LimiterWait ==
    /\ rl.made
    /\ Len(rl.log) < MaxWaits
    /\ \E over \in 0..1 :
          LET wake == WaitUntil(rl.limiter, now)
              returned == IF wake > now THEN wake + over ELSE now
          IN /\ returned <= Epoch + MaxWaitTime
             /\ now' = returned
             /\ rl' = [rl EXCEPT !.limiter.last_call = returned,
                                 !.log = Append(rl.log, [issued |-> now, returned |-> returned])]
    /\ UNCHANGED <<binding, module, testers_json, TESTERS, api_key, DEFAULT_CONFIG,
                   api_rate_limiter, fs, ncalls, nconfig, call, cv, import_exc, report, peer>>

NextLimiter == NewLimiter \/ LimiterTick \/ LimiterWait

SpecLimiter == Init /\ [][NextLimiter]_vars

(***************************************************************************)
(* Properties.                                                             *)
(***************************************************************************)
Ended == call.pc \in {"returned", "raised"}
Succeeded == call.pc = "returned" /\ call.result.kind = "success"
SelectionDone == call.idx >= 1

\* C1: no exception escapes check(): it always returns a CheckResult, and
\* after a failure inside it that result has bugs = [] and carries the
\* error message in raw_response.
C1_NoExceptionEscapes ==
    /\ call.pc # "raised"
    /\ (call.pc = "returned" /\ call.exc # "") =>
          /\ call.result.kind = "error"
          /\ call.result.bugs = <<>>
          /\ call.result.error = call.exc

\* C2: when the endpoint fails on every attempt and max_retries = n >= 1,
\* the vision call is made exactly n times for the tester being analysed,
\* consecutive attempts are at least 2 seconds apart, and the call does
\* not end with a success-shaped result.
C2_RetriesExhausted ==
    LET n == DEFAULT_CONFIG.max_retries
        a == call.attempts
    IN (/\ Ended
        /\ a # <<>>
        /\ n >= 1
        /\ \A i \in 1..Len(a) : a[i].endpoint # "findings")
       => /\ Len(a) = n
          /\ \A i \in 1..Len(a) : a[i].tester = a[1].tester
          /\ \A i \in 1..(Len(a) - 1) : a[i + 1].at - a[i].at >= 2
          /\ ~Succeeded

\* C3: chat_vision raises to its caller whenever the credential is absent,
\* the transport call errors or the endpoint answers a non-success status.
C3_VisionClientRaises ==
    (/\ cv.called
     /\ \/ api_key = None
        \/ /\ cv.prompt # <<>>
           /\ cv.base64_image # ""
           /\ cv.endpoint \in {"transport_error", "http_error"})
    => cv.result.raised

\* C4: chat_vision with an empty prompt or an empty base64 image fails with
\* a validation error and makes no network call.
C4_EmptyInputValidation ==
    (cv.called /\ (cv.prompt = <<>> \/ cv.base64_image = ""))
    => /\ cv.result.raised
       /\ cv.result.exc = "ValueError"
       /\ cv.result.requests = 0

\* C5: when the target result file already holds n records, then after a
\* successful saving check() it holds those n records in their order,
\* followed by the new CheckRecord (stated for the Playwright binding, whose
\* check() loads the existing results before it writes).
C5_AppendsToExisting ==
    (/\ binding = "playwright"
     /\ Succeeded
     /\ call.args.save_to_file
     /\ call.output_file_path \in DOMAIN call.fs0)
    => /\ call.output_file_path \in DOMAIN fs
       /\ fs[call.output_file_path].kind = "array"
       /\ fs[call.output_file_path].items =
             Append(call.fs0[call.output_file_path].items, CheckRecord(call))

\* The file check() writes is new: no file of that name exists before the
\* call, in the output directory or in the working directory.
NoPriorFile ==
    /\ call.output_file_path \notin DOMAIN call.fs0
    /\ RelativePath(call.output_file) \notin DOMAIN call.fs0

SavedToDirectory == Succeeded /\ call.args.save_to_file /\ call.args.output_dir # None

OneNewFile ==
    /\ DOMAIN fs = DOMAIN call.fs0 \cup {call.output_file_path}
    /\ call.output_file_path.dir = call.args.output_dir
    /\ \A p \in DOMAIN call.fs0 : fs[p] = call.fs0[p]

C7_RoundTrip ==
    (Succeeded /\ call.args.save_to_file)
    => /\ call.result.output_file \in DOMAIN fs
       /\ LET loaded == JsonLoad(fs[call.result.output_file])
          IN /\ Len(loaded.items) >= 1
             /\ loaded.items[Len(loaded.items)] = call.result.raw_response
             /\ call.result.raw_response.timestamp = call.timestamp
             /\ call.result.raw_response.testers_results = call.all_findings

\* C7 witness: the Playwright binding appended to a file that held an
\* earlier record, and the file now holds two records.
C7_Witness ==
    /\ Succeeded
    /\ call.args.save_to_file
    /\ binding = "playwright"
    /\ call.result.output_file \in DOMAIN fs
    /\ Len(fs[call.result.output_file].items) = 2
    /\ call.all_findings # <<>>

\* Case-insensitive comparison of names, character by character.
SameLetter(a, b) == LowerChar(a) = LowerChar(b)

NamedJason(name) ==
    /\ Len(name) = 5
    /\ SameLetter(name[1], "j") /\ SameLetter(name[2], "a") /\ SameLetter(name[3], "s")
    /\ SameLetter(name[4], "o") /\ SameLetter(name[5], "n")

NameContains(name, requested) ==
    \E off \in 0..Len(name) :
        /\ off + Len(requested) <= Len(name)
        /\ \A k \in 1..Len(requested) : SameLetter(name[off + k], requested[k])

\* The positions of the catalog a set of positions selects, as a list in
\* catalog order, is the selection.
SelectsExactly(positions) ==
    /\ Len(call.selected_testers) = Cardinality(positions)
    /\ \A i \in positions : \E k \in 1..Len(call.selected_testers) :
          call.selected_testers[k] = TESTERS[i]
    /\ \A k \in 1..Len(call.selected_testers) : \E i \in positions :
          call.selected_testers[k] = TESTERS[i]

JasonPositions == { i \in 1..Len(TESTERS) : NamedJason(TESTERS[i].name) }

MatchingPositions ==
    { i \in 1..Len(TESTERS) :
        \E k \in 1..Len(call.args.testers.names) :
            NameContains(TESTERS[i].name, call.args.testers.names[k]) }

C9_RequestedSelectsMatches ==
    (/\ SelectionDone
     /\ call.args.testers.given
     /\ call.args.testers.names # <<>>
     /\ MatchingPositions # {})
    => /\ SelectsExactly(MatchingPositions)
       /\ (/\ call.args.testers.names = <<sALICE, sBob>>
           /\ Len(TESTERS) = 2 /\ TESTERS[1].name = nJason /\ TESTERS[2].name = nAlice)
          => (Len(call.selected_testers) = 1 /\ call.selected_testers[1] = TESTERS[2])

\* C9 witness: ["ALICE", "bob"] on the catalog {Jason, Alice} selected Alice.
C9_Witness ==
    /\ SelectionDone
    /\ call.args.testers.names = <<sALICE, sBob>>
    /\ Len(TESTERS) = 2 /\ TESTERS[1].name = nJason
    /\ Len(call.selected_testers) = 1
    /\ call.selected_testers[1].name = nAlice

SaveFailed == call.exc \in {"TypeError", "OSError"}

C12_ProfileAsSupplied ==
    call.pc = "returned"
    => call.result.profile = (IF call.args.profile_search = None
                              THEN "default"
                              ELSE call.args.profile_search)

\* C12 as amended: every CheckResult check() returns has profile equal to
\* the profile_search supplied when that is a non-empty string, and
\* "default" when none or the empty string was supplied.
C12_ProfileOrDefault ==
    call.pc = "returned"
    => /\ call.result.kind \in {"success", "error"}
       /\ call.result.profile = (IF call.args.profile_search \in {None, ""}
                                 THEN "default"
                                 ELSE call.args.profile_search)

\* C12 witness: an error-shaped result carries the supplied profile.
C12_Witness ==
    /\ call.pc = "returned"
    /\ call.result.kind = "error"
    /\ call.args.profile_search = "a11y"
    /\ call.result.profile = "a11y"

\* C13: for a RateLimiter built at rate r and used by one caller, the
\* returns of two successive wait() calls are at least 1/r seconds apart.
C13_WaitsSeparated ==
    \A i \in 1..(Len(rl.log) - 1) :
        (rl.log[i + 1].returned - rl.log[i].returned) * rl.rate.num >= rl.rate.den

\* C13 witness: at a rate of 0.25 calls per second a wait() issued one
\* second after the previous one returned blocked for the remaining time.
C13_Witness ==
    /\ rl.rate = Rate(1, 4)
    /\ \E i \in 1..(Len(rl.log) - 1) :
          /\ rl.log[i + 1].issued = rl.log[i].returned + 1
          /\ rl.log[i + 1].returned = rl.log[i].returned + 4

\* C14: the API calls check() makes are at least 1/r seconds apart, r being
\* the api_rate_limit that configure_logging() has set (4 seconds after the
\* package's own configuration of 0.25 calls per second).
C14_ConfiguredRateEnforced ==
    LET r == DEFAULT_CONFIG.api_rate_limit
        a == call.attempts
    IN \A i \in 1..(Len(a) - 1) : (a[i + 1].at - a[i].at) * r.num >= r.den

\* C15: an import with OPENAI_API_KEY absent completes: the module is
\* loaded, with no credential, and no exception ended the import.
C15_LoadsWithoutCredential ==
    (/\ module # "unloaded"
     /\ CatalogLoadEscapes(testers_json) = ""
     /\ api_key = None)
    => /\ module = "ready"
       /\ import_exc = ""

\* The import got past the load of the catalog.
CatalogLoadDone == module # "unloaded" /\ import_exc \in {"", "NameError"}

C17_ValidationBeforeIO ==
    call.exc = "ValueError"
    => /\ ~call.screenshot_saved
       /\ call.attempts = <<>>
       /\ fs = call.fs0

\* ai_report() returned.
ReportDone == report.called /\ ~report.raised

\* A record of the aggregate with the screenshot path as check() saved it
\* (ai_report() points the path at the copy under reports/).
AsSaved(r) == [r EXCEPT !.screenshot.dir = "screenshots"]

\* A file holds JSON: a top-level array or a single object.
Parses(files, p) == files[p].kind \in {"array", "object"}

\* The positions <<file, index>> of the elements of a set of files.
ElementsOf(files, paths) ==
    UNION { { <<p, i>> : i \in 1..Len(files[p].items) } : p \in paths }

\* The aggregate holds exactly the elements at a set of positions, each as
\* many times as it occurs there.
AggregateIs(files, positions) ==
    /\ Len(report.all_results) = Cardinality(positions)
    /\ \A e \in positions :
          Cardinality({ i \in 1..Len(report.all_results) :
                          AsSaved(report.all_results[i]) = files[e[1]].items[e[2]] })
          = Cardinality({ f \in positions :
                          files[f[1]].items[f[2]] = files[e[1]].items[e[2]] })

\* The files of the report's directory whose name starts with "ai_" and ends
\* with ".json": the unlabelled result files and those of a label "ai_...".
NamedAiJson(files, dir) ==
    { p \in DOMAIN files :
        /\ p.dir = dir
        /\ p.name.stem \in {"ai_checks", "ai_home"}
        /\ p.name.tail \in {".json", "_ai.json"} }

\* C18: when ai_report(output_dir) returns, it returns the path
\* output_dir/ai_check_report.html, that file has been written with the
\* aggregate, and the aggregate holds every element of the top-level array
\* or the single object of every matching file that parses, and nothing
\* else; the result files are left as they were.
C18_ReportAggregatesMatchingFiles ==
    ReportDone
    => /\ report.path = PathJoin(report.output_dir, ReportFileName)
       /\ report.path \in DOMAIN fs
       /\ fs[report.path] = [kind |-> "html", items |-> report.all_results]
       /\ \A p \in DOMAIN report.fs0 : p # report.path => fs[p] = report.fs0[p]
       /\ AggregateIs(report.fs0,
             ElementsOf(report.fs0,
                { p \in NamedAiJson(report.fs0, report.output_dir) :
                     Parses(report.fs0, p) }))

\* C18 witness: a report over a directory that holds a result file with two
\* records, both of them in the written aggregate.
C18_Witness ==
    /\ ReportDone
    /\ Len(report.all_results) = 2
    /\ \E p \in DOMAIN report.fs0 :
          /\ p.dir = report.output_dir
          /\ report.fs0[p].kind = "array"
          /\ Len(report.fs0[p].items) = 2
    /\ Len(fs[report.path].items) = 2

\* C19: every result file check() has written into the directory, labelled
\* or not, is read by a later ai_report() on that directory, and each of its
\* records is in the report's aggregate.
C19_ReportReadsEveryResultFile ==
    ReportDone
    => \A p \in DOMAIN report.fs0 :
          (p.dir = report.output_dir /\ Parses(report.fs0, p))
          => /\ \E k \in 1..Len(report.json_files) : report.json_files[k] = p
             /\ \A i \in 1..Len(report.fs0[p].items) :
                   \E j \in 1..Len(report.all_results) :
                      AsSaved(report.all_results[j]) = report.fs0[p].items[i]

\* The files glob listed for the report.
Listed == { report.json_files[k] : k \in 1..Len(report.json_files) }

\* C20: when nothing fails outside the loop over the result files,
\* ai_report() returns and has written the report although some listed file
\* does not parse: that file adds nothing and the elements of every other
\* listed file are aggregated. When reading or rendering the template or
\* writing the report fails, ai_report() raises that exception and no
\* report is written.
C20_ParseFailureSkippedOthersFatal ==
    report.called
    => /\ report.failure = "none"
          => /\ ReportDone
             /\ report.path \in DOMAIN fs
             /\ AggregateIs(report.fs0,
                   ElementsOf(report.fs0, { p \in Listed : Parses(report.fs0, p) }))
       /\ report.failure # "none"
          => /\ report.raised
             /\ report.exc = (IF report.failure = "template" THEN "FileNotFoundError"
                              ELSE IF report.failure = "render" THEN "TemplateError"
                              ELSE "OSError")
             /\ PathJoin(report.output_dir, ReportFileName) \notin DOMAIN fs

\* C20 witness: the report was written from a directory that holds a file
\* that does not parse and a result file that does.
C20_Witness ==
    /\ ReportDone
    /\ \E p \in Listed : ~Parses(report.fs0, p)
    /\ \E p \in Listed : Parses(report.fs0, p)
    /\ report.all_results # <<>>

\* C21: a check() called with save_to_file = True and output_dir = None,
\* once the screenshot is taken, saves the results in the current directory
\* and returns a success-shaped CheckResult whose output_file names the
\* saved file.
C21_NoOutputDirSavesInCwd ==
    (/\ Ended
     /\ call.screenshot_saved
     /\ call.args.save_to_file
     /\ call.args.output_dir = None)
    => /\ Succeeded
       /\ call.result.output_file = RelativePath(call.output_file)
       /\ call.result.output_file \in DOMAIN fs

\* The position of a tester name in the selection (names are unique there).
SelectedIndex(name) ==
    CHOOSE k \in 1..Len(call.selected_testers) : call.selected_testers[k].name = name

\* The number of findings a tester's entry of testers_results holds.
FindingCount(entry) == IF entry.issues.py = "list" THEN Len(entry.issues.items) ELSE 0

\* C22: in a check() that returns normally, the selection is in catalog
\* order whatever the order of the requested names, the API calls are made
\* for the selected testers one after another in that order,
\* testers_results has one entry per selected tester in that order, and
\* bugs holds each tester's findings, tester after tester in that order.
C22_CatalogOrderPreserved ==
    Succeeded
    => LET sel == call.selected_testers
           res == call.result.raw_response.testers_results
           bugs == call.result.bugs
       IN /\ \A k, l \in 1..Len(sel) :
                k < l => \E i, j \in 1..Len(TESTERS) :
                            i < j /\ TESTERS[i] = sel[k] /\ TESTERS[j] = sel[l]
          /\ Len(call.attempts) = Len(sel)
          /\ \A k \in 1..Len(sel) : call.attempts[k].tester = sel[k].name
          /\ \A k \in 1..(Len(sel) - 1) : call.attempts[k].at <= call.attempts[k + 1].at
          /\ Len(res) = Len(sel)
          /\ \A k \in 1..Len(sel) : res[k].tester = sel[k].name
          /\ \A k \in 1..Len(sel) :
                Cardinality({ i \in 1..Len(bugs) : bugs[i].persona = sel[k].name })
                   = FindingCount(res[k])
          /\ \A i \in 1..(Len(bugs) - 1) :
                SelectedIndex(bugs[i].persona) <= SelectedIndex(bugs[i + 1].persona)
          /\ \A i \in 1..Len(bugs) :
                \E k \in 1..Len(sel) :
                   /\ bugs[i].persona = sel[k].name
                   /\ \E n \in 1..Len(res[k].issues.items) : res[k].issues.items[n] = bugs[i]

\* C22 witness: Alice and Jason requested in that order on the catalog
\* <<Jason, Alice>>: both analysed, Jason's finding first in bugs.
C22_Witness ==
    /\ Succeeded
    /\ call.args.testers.names = <<nAlice, nJason>>
    /\ Len(call.result.bugs) = 2
    /\ call.result.bugs[1].persona = nJason
    /\ call.result.bugs[2].persona = nAlice

\* The endpoint failed (transport error or non-success status) on every
\* attempt made for the tester of attempt i.
FailedForGood(i) ==
    \A j \in 1..Len(call.attempts) :
        call.attempts[j].tester = call.attempts[i].tester
        => call.attempts[j].endpoint \in {"transport_error", "http_error"}

\* C23: when the endpoint fails on every attempt made for one selected
\* tester, no API call is made for a later tester and the call ends with an
\* error-shaped result with empty bugs.
C23_TesterFailureAbortsCall ==
    \A i \in 1..Len(call.attempts) :
        FailedForGood(i)
        => /\ \A j \in 1..Len(call.attempts) :
                 j > i => call.attempts[j].tester = call.attempts[i].tester
           /\ Ended => /\ call.pc = "returned"
                       /\ call.result.kind = "error"
                       /\ call.result.bugs = <<>>

\* The attempts for which the model's output was not valid JSON.
BadJsonAttempts == { i \in 1..Len(call.attempts) : call.attempts[i].endpoint = "bad_json" }

\* C24: when the model's output for a tester is not valid JSON, no
\* exception of that parse reaches check(): the remaining selected testers
\* are analysed, a call that ends (its save not failing) returns a
\* success-shaped result, that tester has its entry in testers_results and
\* contributes no finding to bugs, and the other testers' findings are in
\* bugs.
C24_BadJsonDropsOneTester ==
    BadJsonAttempts # {}
    => /\ call.exc # "" => SaveFailed
       /\ call.pc # "raised"
       /\ Ended => (Succeeded \/ SaveFailed)
       /\ Succeeded =>
             /\ Len(call.attempts) = Len(call.selected_testers)
             /\ Len(call.result.raw_response.testers_results) = Len(call.selected_testers)
             /\ \A i \in 1..Len(call.attempts) :
                   Cardinality({ b \in 1..Len(call.result.bugs) :
                                   call.result.bugs[b].persona = call.attempts[i].tester })
                   = (IF call.attempts[i].endpoint = "findings" THEN 1 ELSE 0)

\* C24 witness: the output for the first of two testers was not JSON, and
\* the result is success-shaped with the second tester's finding alone.
C24_Witness ==
    /\ Succeeded
    /\ Len(call.attempts) = 2
    /\ call.attempts[1].endpoint = "bad_json"
    /\ call.attempts[2].endpoint = "findings"
    /\ Len(call.result.bugs) = 1
    /\ call.result.bugs[1].persona = call.attempts[2].tester

RecordsIn(doc) == { doc.items[i] : i \in 1..Len(doc.items) }

\* Both invocations returned normally after writing the same file.
BothSavedSameFile ==
    /\ Succeeded
    /\ call.args.save_to_file
    /\ peer.pc = "returned"
    /\ call.output_file_path = peer.output_file_path

\* Neither invocation had the other's CheckRecord in what it loaded.
NeitherLoadedTheOther ==
    /\ \A i \in 1..Len(call.existing_results) : call.existing_results[i] # CheckRecord(peer)
    /\ \A i \in 1..Len(peer.existing_results) : peer.existing_results[i] # CheckRecord(call)

\* C26: when two concurrent invocations write the same result file and
\* neither loaded the other's record before writing, the file afterwards
\* holds the record of exactly one of them: the other's is lost.
C26_InterleavedSaveLosesRecord ==
    (BothSavedSameFile /\ NeitherLoadedTheOther)
    => LET saved == RecordsIn(fs[call.output_file_path])
       IN (CheckRecord(call) \in saved) # (CheckRecord(peer) \in saved)

\* C26 witness: in the Playwright binding with output_dir = ".", where the
\* file loaded is the file written, both invocations loaded the file before
\* either wrote it, and one record is missing afterwards.
C26_Witness ==
    /\ binding = "playwright"
    /\ BothSavedSameFile
    /\ call.args.output_dir = "."
    /\ call.existing_results = <<>>
    /\ peer.existing_results = <<>>
    /\ Cardinality(RecordsIn(fs[call.output_file_path])) = 1

\* The attempts of the current call made for the tester named n.
AttemptsFor(n) == SelectSeq(call.attempts, LAMBDA a : a.tester = n)

\* Per tester, while the call runs (the configuration cannot change under
\* it): at most max_retries attempts (none when max_retries <= 0), and an
\* attempt that returned without an exception is the last one.
RetryLoopBounded ==
    InProgress =>
    \A k \in 1..Len(call.selected_testers) :
       LET mine == AttemptsFor(call.selected_testers[k].name)
           most == IF DEFAULT_CONFIG.max_retries > 0 THEN DEFAULT_CONFIG.max_retries ELSE 0
       IN /\ Len(mine) <= most
          /\ \A i \in 1..Len(mine) : ~mine[i].raised => i = Len(mine)

\* C27: for every selection and every integer max_retries, the retry loop
\* of a tester makes at most max_retries attempts and stops at the first
\* attempt that returns without an exception, and every check() that was
\* started ends (it returns a result, or its exception leaves it).
C27_CheckTerminates ==
    /\ []RetryLoopBounded
    /\ (InProgress ~> Ended)

\* C27 witness: a call on two testers under max_retries = 2 is about to
\* return after one attempt per tester.
C27_Witness ==
    /\ call.pc = "return"
    /\ DEFAULT_CONFIG.max_retries = 2
    /\ Len(call.selected_testers) = 2
    /\ Len(call.attempts) = 2

\* C30: whatever max_retries is configured, zero and negative included, a
\* success-shaped result has, for each selected tester, an entry whose
\* issues value was returned by a vision call made for that tester during
\* this invocation.
C30_IssuesComeFromOwnCall ==
    Succeeded =>
       LET res == call.result.raw_response.testers_results
       IN /\ Len(res) = Len(call.selected_testers)
          /\ \A k \in 1..Len(res) :
                LET mine == AttemptsFor(call.selected_testers[k].name)
                IN /\ res[k].tester = call.selected_testers[k].name
                   /\ \E i \in 1..Len(mine) :
                         ~mine[i].raised /\ mine[i].value = res[k].issues

\* C30 witness: a success-shaped result on two testers whose calls returned
\* different values, each tester holding the value of its own call.
C30_Witness ==
    /\ Succeeded
    /\ Len(call.selected_testers) = 2
    /\ call.result.raw_response.testers_results[1].issues
          # call.result.raw_response.testers_results[2].issues
    /\ DEFAULT_CONFIG.max_retries > 0

\* A call under max_retries <= 0 has ended without a vision call.
EndedWithoutCall ==
    /\ Ended
    /\ call.selected_testers # <<>>
    /\ call.attempts = <<>>
    /\ call.exc = "UnboundLocalError"

\* The result files of a directory, and the number of records they hold.
FilesIn(files, dir) == { p \in DOMAIN files : p.dir = dir }
RecordCount(files, dir) == Cardinality(ElementsOf(files, FilesIn(files, dir)))

\* C28 as claimed: a successful saving check() leaves every record that the
\* result files of its output directory held before it in some result file
\* of that directory, and adds its own: no earlier record is overwritten or
\* dropped, also when the call falls in the same second as an earlier one.
C28_NoEarlierRecordLost ==
    (Succeeded /\ call.args.save_to_file)
    => LET dir == call.output_file_path.dir
       IN /\ \A p \in FilesIn(call.fs0, dir) :
                \A r \in RecordsIn(call.fs0[p]) :
                   \E q \in FilesIn(fs, dir) : r \in RecordsIn(fs[q])
          /\ RecordCount(fs, dir) = RecordCount(call.fs0, dir) + 1

\* C29 as claimed: a returned CheckResult names an output_file only if this
\* invocation wrote its CheckRecord to that file, and a call with
\* save_to_file = False names none and leaves the result files as they were.
C29_OutputFileOnlyIfWritten ==
    call.pc = "returned"
    => /\ call.result.output_file # NonePath
          => /\ call.result.output_file \in DOMAIN fs
             /\ CheckRecord(call) \in RecordsIn(fs[call.result.output_file])
       /\ ~call.args.save_to_file
          => /\ call.result.output_file = NonePath
             /\ fs = call.fs0

====
